---- MODULE Spec2Model ----
(***************************************************************************)
(* Model of langchain/chains/combine_docs_chain.ts: the OpenAI wrapper's   *)
(* batched _generate loop with completionWithRetry, and the transport it   *)
(* calls.  One generate call is a small process (pc) whose suspension      *)
(* points are the awaits of the source.                                    *)
(***************************************************************************)
EXTENDS Integers, Sequences, FiniteSets, TLC

\* ------------------------------------------------------------------ bounds
MaxBatches == 2
MaxPrompts == 3
MaxBatchSize == 2
MaxN == 2
MaxRetriesBound == 2
MaxTokens == 1

\* ------------------------------------------------- optional values (T | undefined)
None == <<>>
Some(v) == <<v>>
IsSome(o) == o # <<>>
Get(o) == o[1]
OptOf(S) == {None} \cup {Some(v) : v \in S}

Min(a, b) == IF a < b THEN a ELSE b

\* JavaScript truthiness of an optional array: any array, the empty one
\* included, is truthy; undefined is falsy.
TruthyArray(o) == IsSome(o)

\* JavaScript truthiness of an optional number: undefined and 0 are falsy.
TruthyNumber(o) == IsSome(o) /\ Get(o) # 0

\* a ?? b
Coalesce(a, b) == IF IsSome(a) THEN a ELSE b

\* ------------------------------------------------------------------ chunker
\* chunkArray(arr, chunkSize) of ../util, for chunkSize > 0; it yields no
\* chunk for the sizes it rejects (see chunkArrayRejects).
chunkArray(arr, chunkSize) ==
    IF chunkSize <= 0 THEN <<>>
    ELSE [k \in 1..((Len(arr) + chunkSize - 1) \div chunkSize) |->
            SubSeq(arr, (k - 1) * chunkSize + 1, Min(k * chunkSize, Len(arr)))]

chunkArrayRejectsNegative(chunkSize) == chunkSize < 0

\* chunkArray rejects a chunk size that is not positive.
chunkArrayRejects(chunkSize) == chunkSize <= 0

RECURSIVE Flatten(_)
Flatten(ss) == IF ss = <<>> THEN <<>> ELSE Head(ss) \o Flatten(Tail(ss))

\* ------------------------------------------------------------ configuration
\* Prompts are opaque texts; the prompts of one call are the distinct texts
\* 1..p, so that a lost, duplicated or misplaced prompt is visible.  A call
\* on an engine of batch size b passes at most MaxPrompts prompts, in at most
\* MaxBatches batches; on an engine that cannot batch, at most MaxPrompts.
PromptLists(b) ==
    {[k \in 1..p |-> k] :
        p \in 0..(IF b >= 1 THEN Min(MaxPrompts, MaxBatches * b) ELSE MaxPrompts)}

\* Stop lists the engine may be constructed with, and the ones a caller may
\* pass to generate: undefined, the empty list, a one-word list.
ConfiguredStops == OptOf({<<>>, <<"\n">>})
StopArguments == OptOf({<<>>, <<"END">>})

\* modelKwargs: passthrough request parameters; a key that is present
\* carries the value the request field takes.  Either no key, or n, or stop.
KwargsChoices ==
    {[n |-> None, stop |-> None],
     [n |-> Some(1), stop |-> None],
     [n |-> Some(MaxN), stop |-> None],
     [n |-> None, stop |-> Some(Some(<<"KW">>))]}

\* The engine after construction (lines 231-244).
Engines ==
    [modelName : {"text-davinci-003"},
     n : 1..MaxN,
     batchSize : 1..MaxBatchSize,
     maxRetries : 1..MaxRetriesBound,
     stop : ConfiguredStops,
     modelKwargs : KwargsChoices]

\* -------------------------------------------------------------- token usage
EmptyTokenUsage ==
    [completionTokens |-> None, promptTokens |-> None, totalTokens |-> None]

NoUsageFields ==
    [completion_tokens |-> None, prompt_tokens |-> None, total_tokens |-> None]

\* Every usage a response can carry: undefined, or three optional counters.
AllUsages ==
    OptOf([completion_tokens : OptOf({0, MaxTokens}),
           prompt_tokens : OptOf({0, MaxTokens}),
           total_tokens : OptOf({0, MaxTokens})])

\* The usages the transport of the generate model answers with: each
\* counter is absent in one, zero in one and positive in one of them.
UsageChoices ==
    {None,
     Some([completion_tokens |-> Some(0), prompt_tokens |-> Some(MaxTokens),
           total_tokens |-> None]),
     Some([completion_tokens |-> Some(MaxTokens), prompt_tokens |-> None,
           total_tokens |-> Some(0)]),
     Some([completion_tokens |-> None, prompt_tokens |-> Some(0),
           total_tokens |-> Some(MaxTokens)])}

\* Mutant of AddCounter: the counter is assigned, not added to.
AddCounterOverwrites(acc, x) == IF TruthyNumber(x) THEN x ELSE acc

\* Mutant of AddCounter: a response without the counter clears it.
AddCounterResets(acc, x) ==
    IF TruthyNumber(x)
    THEN Some(Get(Coalesce(acc, Some(0))) + Get(x))
    ELSE None

\* if (x) { tokenUsage.x = (tokenUsage.x ?? 0) + x }
AddCounter(acc, x) ==
    IF TruthyNumber(x)
    THEN Some(Get(Coalesce(acc, Some(0))) + Get(x))
    ELSE acc

\* Lines 314-331: one response's usage added to the running tokenUsage.
AddUsage(tokenUsage, usage) ==
    LET u == Get(Coalesce(usage, Some(NoUsageFields)))
    IN  [completionTokens |-> AddCounter(tokenUsage.completionTokens, u.completion_tokens),
         promptTokens |-> AddCounter(tokenUsage.promptTokens, u.prompt_tokens),
         totalTokens |-> AddCounter(tokenUsage.totalTokens, u.total_tokens)]

\* ---------------------------------------------------------------- requests
\* invocationParams(): the configured fields, then ...this.modelKwargs.
invocationParams(e) ==
    [model |-> e.modelName,
     n |-> IF IsSome(e.modelKwargs.n) THEN Get(e.modelKwargs.n) ELSE e.n,
     stop |-> IF IsSome(e.modelKwargs.stop) THEN Get(e.modelKwargs.stop) ELSE e.stop]

\* Lines 305-306: params.stop = stop ?? params.stop.
CallParams(e, stop) ==
    [invocationParams(e) EXCEPT !.stop = Coalesce(stop, invocationParams(e).stop)]

\* Mutant of StopConflict: an empty list counts as no list.
StopConflictNonEmpty(e, stop) ==
    /\ IsSome(e.stop) /\ Get(e.stop) # <<>>
    /\ IsSome(stop) /\ Get(stop) # <<>>

StopConflictOnOverride(e, stop) == TruthyArray(stop)

\* Line 301: this.stop && stop.
StopConflict(e, stop) == TruthyArray(e.stop) /\ TruthyArray(stop)

\* Mutant of BatchRequest: every request carries the first batch.
BatchRequestFirstBatch(params, subPrompts, i) ==
    [model |-> params.model, n |-> params.n, stop |-> params.stop,
     prompt |-> subPrompts[1]]

\* Lines 309-312: { ...params, prompt: subPrompts[i] } (i counts from 1 here).
BatchRequest(params, subPrompts, i) ==
    [model |-> params.model, n |-> params.n, stop |-> params.stop,
     prompt |-> subPrompts[i]]

\* Mutant of numOfAttempts: maxRetries retries after the first attempt.
numOfAttemptsPlusFirst(e) == e.maxRetries + 1

\* numOfAttempts: this.maxRetries (line 355).
numOfAttempts(e) == e.maxRetries

\* --------------------------------------------------------------- transport
\* The remote collaborator: for each prompt of the request, in order,
\* request.n choices, contiguous.
Choice(prompt, k) ==
    [text |-> Some(<<prompt, k>>), finish_reason |-> "stop", logprobs |-> None]

RECURSIVE Completions(_, _)
Completions(prompts, n) ==
    IF prompts = <<>> THEN <<>>
    ELSE [k \in 1..n |-> Choice(Head(prompts), k)] \o Completions(Tail(prompts), n)

\* Lines 334-342: the flat choices regrouped by this.n and mapped.
Generation(choice) ==
    [text |-> Get(Coalesce(choice.text, Some(""))),
     generationInfo |-> [finishReason |-> choice.finish_reason,
                         logprobs |-> choice.logprobs]]

\* Mutant of GroupSize: the choices regrouped by the batch size.
GroupSizeByBatch(e) == e.batchSize

\* chunkArray(choices, this.n) (line 334).
GroupSize(e) == e.n

Generations(e, choices) ==
    LET groups == chunkArray(choices, GroupSize(e))
    IN  [g \in 1..Len(groups) |->
            [k \in 1..Len(groups[g]) |-> Generation(groups[g][k])]]

\* Lines 343-346.
LLMResult(e, choices, tokenUsage) ==
    [generations |-> Generations(e, choices),
     llmOutput |-> [tokenUsage |-> tokenUsage]]

\* -------------------------------------------------------- document stuffing
MaxDocs == 2

SeqsUpTo(S, n) == UNION {[1..k -> S] : k \in 0..n}

\* A Document: _call reads its pageContent only.
Documents == [pageContent : {"A", "B"}, metadata : {"m"}]

\* ChainValues hold document lists and strings; a string is the sequence of
\* its pieces, so that a joined text shows what was joined and in what order.
DocsValue(docs) == [kind |-> "documents", docs |-> docs]
TextValue(pieces) == [kind |-> "string", pieces |-> pieces]

DocKeys == {"input_documents", "docs"}
OtherKeys == {"context", "question"}

\* The values a caller passes to _call: any subset of the keys, a document
\* list of at most MaxDocs documents under a document key, a string under
\* the others.
InputMaps ==
    UNION {
        {m \in [S -> {DocsValue(d) : d \in SeqsUpTo(Documents, MaxDocs)}
                       \cup {TextValue(<<"x">>)}] :
            \A k \in S : (k \in DocKeys) <=> (m[k].kind = "documents")} :
        S \in SUBSET (DocKeys \cup OtherKeys)}

\* The inner pipeline: an LLMChain, known by its configuration, with its
\* serialize / deserialize pair.
LLMChains == [prompt : {"stuff_prompt", "other_prompt"}]
SerializeLLMChain(chain) == [_type |-> "llm_chain", prompt |-> chain.prompt]
DeserializeLLMChain(data) == [prompt |-> data.prompt]

\* What the inner pipeline may return.
InnerResults ==
    {[k \in {"text"} |-> TextValue(<<"answer">>)],
     [k \in {"text", "context"} |-> TextValue(<<"other">>)]}

\* The constructor (lines 39-51): fields.x ?? the field's default.
NewStage(fields) ==
    [llmChain |-> fields.llmChain,
     documentVariableName |->
        Get(Coalesce(fields.documentVariableName, Some("context"))),
     inputKey |-> Get(Coalesce(fields.inputKey, Some("input_documents"))),
     outputKey |-> Get(Coalesce(fields.outputKey, Some("output_text")))]

StageFields ==
    [llmChain : LLMChains,
     inputKey : OptOf({"docs"}),
     outputKey : OptOf({"answer"}),
     documentVariableName : OptOf({"question"})]

Stages == {NewStage(f) : f \in StageFields}

JoinWithoutSeparator(texts) == texts

\* texts.join("\n\n") (line 59).
RECURSIVE Join(_)
Join(texts) ==
    IF texts = <<>> THEN <<>>
    ELSE IF Len(texts) = 1 THEN <<texts[1]>>
    ELSE <<Head(texts), "\n\n">> \o Join(Tail(texts))

\* docs.map(({ pageContent }) => pageContent) (line 58).
Texts(docs) == [k \in 1..Len(docs) |-> docs[k].pageContent]

\* Line 54: this.inputKey in values.
HasInputKey(st, values) == st.inputKey \in DOMAIN values

\* const { [this.inputKey]: docs, ...rest } = values (line 57).
RestKeys(st, values) == DOMAIN values \ {st.inputKey}

InnerInputRestWins(st, values) ==
    LET text == Join(Texts(values[st.inputKey].docs))
    IN  [k \in RestKeys(st, values) \cup {st.documentVariableName} |->
            IF k \in RestKeys(st, values) THEN values[k] ELSE TextValue(text)]

\* Lines 57-63: { ...rest, [this.documentVariableName]: text }.
InnerInput(st, values) ==
    LET text == Join(Texts(values[st.inputKey].docs))
    IN  [k \in RestKeys(st, values) \cup {st.documentVariableName} |->
            IF k = st.documentVariableName THEN TextValue(text) ELSE values[k]]

MissingInputUnnamed(st) ==
    [error |-> "MissingInput", message |-> <<"Document key not found.">>]

\* Line 55: the error names the key.
MissingInput(st) ==
    [error |-> "MissingInput",
     message |-> <<"Document key ", st.inputKey, " not found.">>]

\* serialize() (lines 82-87).
Serialize(st) ==
    [_type |-> "stuff_documents_chain",
     llm_chain |-> Some(SerializeLLMChain(st.llmChain)),
     llm_chain_path |-> None]

\* resolveConfigFromFile("llm_chain", data) of ../util: the inline
\* configuration, or the one read at llm_chain_path; None when it fails.
ConfigFiles == [path \in {"llm_chain.json"} |-> SerializeLLMChain([prompt |-> "stuff_prompt"])]

resolveConfigFromFile(data) ==
    IF IsSome(data.llm_chain) /\ ~IsSome(data.llm_chain_path) THEN data.llm_chain
    ELSE IF IsSome(data.llm_chain_path) /\ ~IsSome(data.llm_chain)
              /\ Get(data.llm_chain_path) \in DOMAIN ConfigFiles
    THEN Some(ConfigFiles[Get(data.llm_chain_path)])
    ELSE None

\* deserialize(data) (lines 71-80): the stage is built from the llmChain alone.
Deserialize(data) ==
    IF IsSome(resolveConfigFromFile(data))
    THEN Some(NewStage([llmChain |-> DeserializeLLMChain(Get(resolveConfigFromFile(data))),
                        inputKey |-> None, outputKey |-> None,
                        documentVariableName |-> None]))
    ELSE None

\* -------------------------------------------------------------------- state
MaxCalls == 2
CallIds == 1..MaxCalls

VARIABLES
    engine,         \* the OpenAI instance's configuration fields
    callers,        \* the generate calls that are made on it
    pc,             \* per call: idle, request, await, returned, thrown
    args,           \* per call: the arguments of _generate
    subPrompts,     \* per call: the local subPrompts
    choices,        \* per call: the local choices
    tokenUsage,     \* per call: the local tokenUsage
    params,         \* per call: the local params
    i,              \* per call: the loop index (from 1)
    attemptNumber,  \* per call: failed attempts of the running backOff
    result,         \* per call: the LLMResult the promise resolved with
    error,          \* per call: the error the promise rejected with
    log,            \* every createCompletion invocation, in order
    usageRecords,   \* usage accumulation alone: the usages added so far
    usageTotal,     \* usage accumulation alone: the running tokenUsage
    stage,          \* the StuffDocumentsChain instance's fields
    stuffPc,        \* its _call: idle, inner, returned, thrown
    stuffValues,    \* the values _call was given
    innerCalls,     \* every llmChain.call invocation, in order
    stuffResult,    \* what the promise of _call resolved with
    stuffError,     \* what the promise of _call rejected with
    restored        \* deserialize(stage.serialize()), once it was taken

vars == <<engine, callers, pc, args, subPrompts, choices, tokenUsage, params,
          i, attemptNumber, result, error, log, usageRecords, usageTotal,
          stage, stuffPc, stuffValues, innerCalls, stuffResult, stuffError,
          restored>>

usageVars == <<usageRecords, usageTotal>>

stuffVars == <<stage, stuffPc, stuffValues, innerCalls, stuffResult,
               stuffError, restored>>

engineVars == <<engine, callers, pc, args, subPrompts, choices, tokenUsage,
                params, i, attemptNumber, result, error, log>>

locals == <<subPrompts, choices, tokenUsage, params, i>>

NoArgs == [prompts |-> <<>>, stop |-> None]
NoParams == [model |-> "", n |-> 0, stop |-> None]

InitCalls ==
    /\ pc = [c \in CallIds |-> "idle"]
    /\ args = [c \in CallIds |-> NoArgs]
    /\ subPrompts = [c \in CallIds |-> <<>>]
    /\ choices = [c \in CallIds |-> <<>>]
    /\ tokenUsage = [c \in CallIds |-> EmptyTokenUsage]
    /\ params = [c \in CallIds |-> NoParams]
    /\ i = [c \in CallIds |-> 0]
    /\ attemptNumber = [c \in CallIds |-> 0]
    /\ result = [c \in CallIds |-> None]
    /\ error = [c \in CallIds |-> ""]
    /\ log = <<>>

\* A stage of which _call was not called yet.
InitStuff ==
    /\ stuffPc = "idle"
    /\ stuffValues = None
    /\ innerCalls = <<>>
    /\ stuffResult = None
    /\ stuffError = None
    /\ restored = None

\* A stage constructed with the llmChain alone (lines 33-37).
DefaultStage ==
    NewStage([llmChain |-> [prompt |-> "stuff_prompt"], inputKey |-> None,
              outputKey |-> None, documentVariableName |-> None])

Init ==
    /\ engine \in Engines
    /\ callers = {1}
    /\ InitCalls
    /\ usageRecords = <<>>
    /\ usageTotal = EmptyTokenUsage
    /\ stage = DefaultStage
    /\ InitStuff

\* The promise of call c resolves with the LLMResult (lines 334-346).
Return(c, allChoices, usage) ==
    /\ pc' = [pc EXCEPT ![c] = "returned"]
    /\ result' = [result EXCEPT ![c] = Some(LLMResult(engine, allChoices, usage))]
    /\ error' = error

\* The promise of call c rejects.
Throw(c, err) ==
    /\ pc' = [pc EXCEPT ![c] = "thrown"]
    /\ error' = [error EXCEPT ![c] = err]
    /\ result' = result

\* _generate(prompts, stop) up to its first await (lines 296-309).
Generate(c) ==
    /\ c \in callers
    /\ pc[c] = "idle"
    /\ \E prompts \in PromptLists(engine.batchSize), stop \in StopArguments :
        /\ args' = [args EXCEPT ![c] = [prompts |-> prompts, stop |-> stop]]
        /\ IF chunkArrayRejects(engine.batchSize)
           THEN /\ Throw(c, "InvalidArgument")
                /\ UNCHANGED locals
           ELSE IF StopConflict(engine, stop)
           THEN /\ Throw(c, "ConfigConflict")
                /\ subPrompts' = [subPrompts EXCEPT
                                    ![c] = chunkArray(prompts, engine.batchSize)]
                /\ UNCHANGED <<choices, tokenUsage, params, i>>
           ELSE /\ subPrompts' = [subPrompts EXCEPT
                                    ![c] = chunkArray(prompts, engine.batchSize)]
                /\ choices' = [choices EXCEPT ![c] = <<>>]
                /\ tokenUsage' = [tokenUsage EXCEPT ![c] = EmptyTokenUsage]
                /\ params' = [params EXCEPT ![c] = CallParams(engine, stop)]
                /\ i' = [i EXCEPT ![c] = 1]
                /\ IF Len(chunkArray(prompts, engine.batchSize)) = 0
                   THEN Return(c, <<>>, EmptyTokenUsage)
                   ELSE /\ pc' = [pc EXCEPT ![c] = "request"]
                        /\ UNCHANGED <<result, error>>
    /\ UNCHANGED <<engine, callers, attemptNumber, log, usageVars, stuffVars>>

\* Mutant of MaySend: the next attempt does not wait for the one in flight.
MaySendWithoutAwait(c) == pc[c] \in {"request", "await"}

\* The call may invoke the transport: it is at an attempt of backOff, with
\* no earlier attempt of its own awaited (line 309, await).
MaySend(c) == pc[c] = "request"

\* makeCompletionRequest: one createCompletion(request) attempt (line 351).
SendRequest(c) ==
    /\ MaySend(c)
    /\ log' = Append(log,
                [call |-> c, batch |-> i[c], attempt |-> attemptNumber[c] + 1,
                 request |-> BatchRequest(params[c], subPrompts[c], i[c]),
                 status |-> "pending", data |-> None])
    /\ pc' = [pc EXCEPT ![c] = "await"]
    /\ UNCHANGED <<engine, callers, args, locals, attemptNumber, result, error,
                   usageVars, stuffVars>>

PendingOfAnyCall(c) == {k \in 1..Len(log) : log[k].status = "pending"}

\* The attempts of call c that are in flight: the promise call c awaits.
Pending(c) == {k \in 1..Len(log) : log[k].call = c /\ log[k].status = "pending"}

\* choices.push(...data.choices) (line 313).
PushChoices(old, new) == old \o new

\* The attempt succeeds: backOff resolves, the loop body runs (lines 313-331)
\* and the loop goes on to the next batch or to the return (lines 334-346).
TransportSucceeds(c) ==
    /\ pc[c] = "await"
    /\ \E k \in Pending(c), usage \in UsageChoices :
        LET data == [choices |-> Completions(log[k].request.prompt, log[k].request.n),
                     usage |-> usage]
            allChoices == PushChoices(choices[c], data.choices)
            allUsage == AddUsage(tokenUsage[c], data.usage)
        IN  /\ log' = [log EXCEPT ![k].status = "ok", ![k].data = Some(data)]
            /\ choices' = [choices EXCEPT ![c] = allChoices]
            /\ tokenUsage' = [tokenUsage EXCEPT ![c] = allUsage]
            /\ i' = [i EXCEPT ![c] = i[c] + 1]
            /\ attemptNumber' = [attemptNumber EXCEPT ![c] = 0]
            /\ IF i[c] + 1 <= Len(subPrompts[c])
               THEN /\ pc' = [pc EXCEPT ![c] = "request"]
                    /\ UNCHANGED <<result, error>>
               ELSE Return(c, allChoices, allUsage)
    /\ UNCHANGED <<engine, callers, args, subPrompts, params, usageVars, stuffVars>>

AttemptLimitOneLater(e, failures) == failures > e.maxRetries

\* backOff: the attempt limit is reached after numOfAttempts failures.
AttemptLimitReached(e, failures) == failures >= numOfAttempts(e)

\* Mutant of TransportFails: the completions a failed attempt had produced
\* for its first prompt are kept.
TransportFailsKeepsPartial(c) ==
    /\ pc[c] = "await"
    /\ \E k \in Pending(c) :
        /\ log' = [log EXCEPT ![k].status = "error"]
        /\ attemptNumber' = [attemptNumber EXCEPT ![c] = attemptNumber[c] + 1]
        /\ choices' = [choices EXCEPT ![c] =
                PushChoices(choices[c],
                    Completions(<<Head(log[k].request.prompt)>>, log[k].request.n))]
        /\ IF AttemptLimitReached(engine, attemptNumber[c] + 1)
           THEN Throw(c, "RetryExhausted")
           ELSE /\ pc' = [pc EXCEPT ![c] = "request"]
                /\ UNCHANGED <<result, error>>
    /\ UNCHANGED <<engine, callers, args, subPrompts, tokenUsage, params, i,
                   usageVars, stuffVars>>

\* Mutant of TransportFails: a batch that used up its attempts is skipped
\* and the loop goes on.
TransportFailsContinues(c) ==
    /\ pc[c] = "await"
    /\ \E k \in Pending(c) :
        /\ log' = [log EXCEPT ![k].status = "error"]
        /\ IF AttemptLimitReached(engine, attemptNumber[c] + 1)
           THEN /\ attemptNumber' = [attemptNumber EXCEPT ![c] = 0]
                /\ i' = [i EXCEPT ![c] = i[c] + 1]
                /\ IF i[c] + 1 <= Len(subPrompts[c])
                   THEN /\ pc' = [pc EXCEPT ![c] = "request"]
                        /\ UNCHANGED <<result, error>>
                   ELSE Return(c, choices[c], tokenUsage[c])
           ELSE /\ attemptNumber' = [attemptNumber EXCEPT ![c] = attemptNumber[c] + 1]
                /\ i' = i
                /\ pc' = [pc EXCEPT ![c] = "request"]
                /\ UNCHANGED <<result, error>>
    /\ UNCHANGED <<engine, callers, args, subPrompts, choices, tokenUsage, params,
                   usageVars, stuffVars>>

\* The attempt fails: backOff counts it and retries after its delay, or
\* rejects with the last failure when the attempts are used up; the
\* rejection leaves _generate at line 309.
TransportFails(c) ==
    /\ pc[c] = "await"
    /\ \E k \in Pending(c) :
        /\ log' = [log EXCEPT ![k].status = "error"]
        /\ attemptNumber' = [attemptNumber EXCEPT ![c] = attemptNumber[c] + 1]
        /\ IF AttemptLimitReached(engine, attemptNumber[c] + 1)
           THEN Throw(c, "RetryExhausted")
           ELSE /\ pc' = [pc EXCEPT ![c] = "request"]
                /\ UNCHANGED <<result, error>>
    /\ UNCHANGED <<engine, callers, args, locals, usageVars, stuffVars>>

Next ==
    \E c \in CallIds :
        \/ Generate(c)
        \/ SendRequest(c)
        \/ TransportSucceeds(c)
        \/ TransportFails(c)

Spec == Init /\ [][Next]_vars

\* ------------------------------------------------ generate, attempts ending
\* Every attempt in flight returns or fails, and a call that may send its
\* next attempt sends it (the delay of backOff ends).
Fairness ==
    /\ WF_vars(\E c \in CallIds : SendRequest(c))
    /\ WF_vars(\E c \in CallIds : TransportSucceeds(c) \/ TransportFails(c))

\* Passthrough parameters change the fields of a request and not the number
\* of requests: the calls are followed on the engines without them.
InitFair ==
    /\ engine \in {e \in Engines : e.modelKwargs = [n |-> None, stop |-> None]}
    /\ callers = {1}
    /\ InitCalls
    /\ usageRecords = <<>>
    /\ usageTotal = EmptyTokenUsage
    /\ stage = DefaultStage
    /\ InitStuff

SpecFair == InitFair /\ [][Next]_vars /\ Fairness

\* --------------------------------- engines with any batch size, valid or not
\* The constructor stores fields.batchSize as it is (line 234): an engine may
\* hold a zero or negative batch size.
NonPositiveBatchEngines ==
    {[e EXCEPT !.batchSize = b] : e \in Engines, b \in (0 - MaxBatchSize)..0}

\* Any engine the constructor accepts, generate called on it once.
InitAnyBatchSize ==
    /\ engine \in Engines \cup NonPositiveBatchEngines
    /\ callers = {1}
    /\ InitCalls
    /\ usageRecords = <<>>
    /\ usageTotal = EmptyTokenUsage
    /\ stage = DefaultStage
    /\ InitStuff

SpecAnyBatchSize == InitAnyBatchSize /\ [][Next]_vars

\* ------------------------------------------- concurrent calls on one engine
\* Engines without passthrough parameters and without a stop list: what the
\* calls share is the engine, whatever its fields hold.
PlainEngines ==
    {e \in Engines : /\ e.modelKwargs = [n |-> None, stop |-> None]
                     /\ e.stop = None
                     /\ e.maxRetries = 1
                     /\ e.batchSize = MaxBatchSize}

\* Every call of CallIds is made, at any time: before, while or after the
\* others run.
InitConcurrent ==
    /\ engine \in PlainEngines
    /\ callers = {1, 2}
    /\ InitCalls
    /\ usageRecords = <<>>
    /\ usageTotal = EmptyTokenUsage
    /\ stage = DefaultStage
    /\ InitStuff

SpecConcurrent == InitConcurrent /\ [][Next]_vars

\* ------------------------------------------------- usage accumulation alone
MaxRecords == 2

\* An engine constructed without fields (lines 189-213).
DefaultEngine ==
    [modelName |-> "text-davinci-003", n |-> 1, batchSize |-> 20,
     maxRetries |-> 6, stop |-> None,
     modelKwargs |-> [n |-> None, stop |-> None]]

InitUsage ==
    /\ engine = DefaultEngine
    /\ callers = {}
    /\ InitCalls
    /\ usageRecords = <<>>
    /\ usageTotal = EmptyTokenUsage
    /\ stage = DefaultStage
    /\ InitStuff

\* Lines 314-331 applied to the usage of one more response.
AccumulateUsage ==
    /\ Len(usageRecords) < MaxRecords
    /\ \E usage \in AllUsages :
        /\ usageRecords' = Append(usageRecords, usage)
        /\ usageTotal' = AddUsage(usageTotal, usage)
    /\ UNCHANGED <<engineVars, stuffVars>>

NextUsage == AccumulateUsage

SpecUsage == InitUsage /\ [][NextUsage]_vars

\* ------------------------------------------------- the stuffing stage alone
InitStage ==
    /\ engine = DefaultEngine
    /\ callers = {}
    /\ InitCalls
    /\ usageRecords = <<>>
    /\ usageTotal = EmptyTokenUsage
    /\ stage \in Stages
    /\ InitStuff

\* _call(values) up to its await (lines 53-60).
StuffCall ==
    /\ stuffPc = "idle"
    /\ \E values \in InputMaps :
        /\ stuffValues' = Some(values)
        /\ IF ~HasInputKey(stage, values)
           THEN /\ stuffPc' = "thrown"
                /\ stuffError' = Some(MissingInput(stage))
                /\ innerCalls' = innerCalls
           ELSE /\ stuffPc' = "inner"
                /\ stuffError' = stuffError
                /\ innerCalls' = Append(innerCalls,
                        [input |-> InnerInput(stage, values),
                         status |-> "pending", output |-> None])
    /\ UNCHANGED <<engineVars, usageVars, stage, stuffResult, restored>>

\* llmChain.call resolves: _call returns its result (lines 60-64).
InnerReturns ==
    /\ stuffPc = "inner"
    /\ \E r \in InnerResults :
        /\ innerCalls' = [innerCalls EXCEPT ![Len(innerCalls)].status = "ok",
                                            ![Len(innerCalls)].output = Some(r)]
        /\ stuffResult' = Some(r)
    /\ stuffPc' = "returned"
    /\ UNCHANGED <<engineVars, usageVars, stage, stuffValues, stuffError, restored>>

\* llmChain.call rejects: the await of line 60 rethrows.
InnerFails ==
    /\ stuffPc = "inner"
    /\ innerCalls' = [innerCalls EXCEPT ![Len(innerCalls)].status = "error"]
    /\ stuffError' = Some([error |-> "InnerFailure", message |-> <<"inner">>])
    /\ stuffPc' = "thrown"
    /\ UNCHANGED <<engineVars, usageVars, stage, stuffValues, stuffResult, restored>>

\* StuffDocumentsChain.deserialize(stage.serialize()).
RoundTrip ==
    /\ restored = None
    /\ restored' = Deserialize(Serialize(stage))
    /\ UNCHANGED <<engineVars, usageVars, stage, stuffPc, stuffValues, innerCalls,
                   stuffResult, stuffError>>

NextStage == StuffCall \/ InnerReturns \/ InnerFails \/ RoundTrip

SpecStage == InitStage /\ [][NextStage]_vars

\* ------------------------------------------------------ the log, per call
Entries(c) == {k \in 1..Len(log) : log[k].call = c}
BatchEntries(c, j) == {k \in Entries(c) : log[k].batch = j}
FailedEntries(c, j) == {k \in BatchEntries(c, j) : log[k].status = "error"}
OkEntries(c) == SelectSeq(log, LAMBDA en : en.call = c /\ en.status = "ok")
Returned(c) == pc[c] = "returned"
Thrown(c, err) == pc[c] = "thrown" /\ error[c] = err

\* ------------------------------------------------------------------ claims

TransportAnswersN(c) ==
    \A k \in 1..Len(OkEntries(c)) :
        LET en == OkEntries(c)[k]
        IN  Len(Get(en.data).choices) = engine.n * Len(en.request.prompt)

\* C1: when every response holds n completions per prompt of its batch, a
\* successful generate returns one group per prompt, each of n completions,
\* and group j holds the completions of prompt j, whatever the batch size.
GroupsMatchPrompts ==
    \A c \in callers :
        (Returned(c) /\ TransportAnswersN(c)) =>
            LET gens == Get(result[c]).generations
                prompts == args[c].prompts
            IN  /\ Len(gens) = Len(prompts)
                /\ \A j \in 1..Len(prompts) :
                     /\ Len(gens[j]) = engine.n
                     /\ \A k \in 1..engine.n :
                          gens[j][k] = Generation(Choice(prompts[j], k))

GroupsMatchPromptsWitness ==
    /\ Returned(1) /\ TransportAnswersN(1)
    /\ Len(args[1].prompts) = 3 /\ engine.batchSize = 2 /\ engine.n = 2
    /\ Len(Get(result[1]).generations) = 3

\* C2: generate called with a non-empty stop override on an engine that has
\* a configured stop list fails with ConfigConflict, and the transport is
\* not invoked during the call.
ConflictFailsBeforeTransport ==
    \A c \in callers :
        (/\ pc[c] # "idle"
         /\ IsSome(engine.stop)
         /\ IsSome(args[c].stop) /\ Get(args[c].stop) # <<>>) =>
            /\ Thrown(c, "ConfigConflict")
            /\ result[c] = None
            /\ Entries(c) = {}

ConflictFailsBeforeTransportWitness ==
    /\ Thrown(1, "ConfigConflict")
    /\ engine.stop = Some(<<>>)
    /\ args[1].stop = Some(<<"END">>)
    /\ Len(args[1].prompts) = 2
    /\ log = <<>>

\* C3: a batch whose every attempt fails is attempted exactly maxRetries
\* times and then the call fails with RetryExhausted; no batch is ever
\* attempted more often, and the call does not fail after fewer attempts.
ExactlyMaxRetriesAttempts ==
    \A c \in callers :
        /\ \A j \in 1..Len(subPrompts[c]) :
             Cardinality(BatchEntries(c, j)) <= engine.maxRetries
        /\ Thrown(c, "RetryExhausted") =>
             /\ Cardinality(BatchEntries(c, i[c])) = engine.maxRetries
             /\ FailedEntries(c, i[c]) = BatchEntries(c, i[c])
        /\ \A j \in 1..Len(subPrompts[c]) :
             Cardinality(FailedEntries(c, j)) = engine.maxRetries =>
                Thrown(c, "RetryExhausted")

ExactlyMaxRetriesAttemptsWitness ==
    /\ Thrown(1, "RetryExhausted")
    /\ engine.maxRetries = 2
    /\ Len(subPrompts[1]) = 1
    /\ Len(log) = 2
    /\ \A k \in 1..2 : log[k].status = "error"

RECURSIVE SumUsage(_)
SumUsage(usages) ==
    IF usages = <<>> THEN EmptyTokenUsage
    ELSE AddUsage(SumUsage(SubSeq(usages, 1, Len(usages) - 1)),
                  usages[Len(usages)])

OkUsages(c) == [k \in 1..Len(OkEntries(c)) |-> Get(OkEntries(c)[k].data).usage]

ImmediateChoices(c) ==
    Flatten([j \in 1..Len(subPrompts[c]) |->
                Completions(subPrompts[c][j], params[c].n)])

\* C4: a call whose batches fail k < maxRetries times before they succeed
\* returns what it returns when every batch succeeds at once: the groups of
\* the completions of the batches, the usage of the successful responses
\* alone; every attempt of a batch sends the same request.
RetriesLeaveNoTrace ==
    \A c \in callers :
        Returned(c) =>
            /\ \A j \in 1..Len(subPrompts[c]) :
                 /\ Cardinality({k \in BatchEntries(c, j) : log[k].status = "ok"}) = 1
                 /\ \A k, m \in BatchEntries(c, j) : log[k].request = log[m].request
            /\ \A k \in Entries(c) : log[k].status = "error" => log[k].data = None
            /\ result[c] = Some(LLMResult(engine, ImmediateChoices(c),
                                          SumUsage(OkUsages(c))))

RetriesLeaveNoTraceWitness ==
    /\ Returned(1)
    /\ Len(subPrompts[1]) = 2
    /\ Cardinality(FailedEntries(1, 1)) = 1
    /\ Cardinality(FailedEntries(1, 2)) = 1
    /\ Len(Get(result[1]).generations) = 3

ExhaustedBatch(c, j) == Cardinality(FailedEntries(c, j)) = engine.maxRetries

\* C5: once a batch has used up its retries the call has failed with
\* RetryExhausted, it has returned no result, and no request of a later
\* batch is ever sent.
ExhaustionAbortsCall ==
    \A c \in callers : \A j \in 1..Len(subPrompts[c]) :
        ExhaustedBatch(c, j) =>
            /\ Thrown(c, "RetryExhausted")
            /\ result[c] = None
            /\ \A k \in Entries(c) : log[k].batch <= j

ExhaustionAfterSuccessWitness ==
    /\ Thrown(1, "RetryExhausted")
    /\ ExhaustedBatch(1, 2)
    /\ Len(OkEntries(1)) = 1
    /\ tokenUsage[1] # EmptyTokenUsage
    /\ result[1] = None

\* C6: a call has at most one transport invocation in flight, its
\* invocations follow the order of the batches, and a batch is first
\* attempted only after the batch before it was answered successfully.
OneBatchAtATime ==
    \A c \in callers :
        /\ Cardinality(Pending(c)) <= 1
        /\ \A k, m \in Entries(c) : k < m => log[k].batch <= log[m].batch
        /\ \A m \in Entries(c) :
             log[m].batch > 1 =>
                \E k \in Entries(c) :
                    /\ k < m
                    /\ log[k].batch = log[m].batch - 1
                    /\ log[k].status = "ok"

OneBatchAtATimeWitness ==
    /\ pc[1] = "await"
    /\ Cardinality(Pending(1)) = 1
    /\ \E m \in Pending(1) : log[m].batch = 2 /\ log[m].attempt = 2

RequestPrompts(c) ==
    Flatten([k \in 1..Len(OkEntries(c)) |-> OkEntries(c)[k].request.prompt])

\* C7: the prompts of the requests a successful call was answered for, in
\* the order sent, are the input prompts; every request holds between 1 and
\* batchSize prompts, and only the last batch may hold fewer than batchSize.
BatchesPartitionPrompts ==
    \A c \in callers :
        /\ \A k \in Entries(c) :
             /\ Len(log[k].request.prompt) >= 1
             /\ Len(log[k].request.prompt) <= engine.batchSize
        /\ Returned(c) =>
             /\ RequestPrompts(c) = args[c].prompts
             /\ \A k \in 1..(Len(OkEntries(c)) - 1) :
                  Len(OkEntries(c)[k].request.prompt) = engine.batchSize

BatchesPartitionPromptsWitness ==
    /\ Returned(1)
    /\ engine.batchSize = 2
    /\ Len(args[1].prompts) = 3
    /\ Len(OkEntries(1)) = 2
    /\ Len(OkEntries(1)[2].request.prompt) = 1

Counters ==
    {<<"completionTokens", "completion_tokens">>,
     <<"promptTokens", "prompt_tokens">>,
     <<"totalTokens", "total_tokens">>}

Value(o) == IF IsSome(o) THEN Get(o) ELSE 0

Reported(usage, field) ==
    IF IsSome(usage) THEN Get(usage)[field] ELSE None

RECURSIVE ReportedSum(_, _)
ReportedSum(usages, field) ==
    IF usages = <<>> THEN 0
    ELSE Value(Reported(Head(usages), field)) + ReportedSum(Tail(usages), field)

CountersAreSums ==
    \A c \in callers : \A f \in Counters :
        /\ Value(tokenUsage[c][f[1]]) = ReportedSum(OkUsages(c), f[2])
        /\ Returned(c) =>
             Value(Get(result[c]).llmOutput.tokenUsage[f[1]])
                = ReportedSum(OkUsages(c), f[2])

CountersNeverDecrease ==
    \A c \in callers : \A f \in Counters :
        Value(tokenUsage'[c][f[1]]) >= Value(tokenUsage[c][f[1]])

\* C8: each counter of the running tokenUsage is the sum of that counter
\* over the responses received so far, a response without it counting as
\* zero, and so is the counter of the result; no step makes a running
\* counter smaller.
UsageIsSumOfResponses == []CountersAreSums /\ [][CountersNeverDecrease]_vars

UsageIsSumOfResponsesWitness ==
    /\ Returned(1)
    /\ Len(OkUsages(1)) = 2
    /\ Reported(OkUsages(1)[1], "completion_tokens") = Some(MaxTokens)
    /\ OkUsages(1)[2] = None
    /\ Get(result[1]).llmOutput.tokenUsage.completionTokens = Some(MaxTokens)

\* C9: in the result of a successful generate a counter that some response
\* reported, with any value, 0 included, is present.
ReportedCounterIsPresent ==
    \A c \in callers : \A f \in Counters :
        (/\ Returned(c)
         /\ \E k \in 1..Len(OkUsages(c)) : IsSome(Reported(OkUsages(c)[k], f[2]))) =>
            IsSome(Get(result[c]).llmOutput.tokenUsage[f[1]])

Permuted(usages, perm) == [k \in 1..Len(usages) |-> usages[perm[k]]]

\* C10: adding the same usage records in any order gives the same
\* tokenUsage: the same totals and the same counters present.
OrderDoesNotMatter ==
    \A perm \in Permutations(1..Len(usageRecords)) :
        SumUsage(Permuted(usageRecords, perm)) = usageTotal

OrderDoesNotMatterWitness ==
    /\ Len(usageRecords) = 2
    /\ Reported(usageRecords[1], "prompt_tokens") = Some(MaxTokens)
    /\ Reported(usageRecords[1], "total_tokens") = None
    /\ Reported(usageRecords[1], "completion_tokens") = Some(MaxTokens)
    /\ Reported(usageRecords[2], "prompt_tokens") = Some(0)
    /\ Reported(usageRecords[2], "total_tokens") = None
    /\ Reported(usageRecords[2], "completion_tokens") = Some(MaxTokens)
    /\ usageTotal = [completionTokens |-> Some(2 * MaxTokens),
                     promptTokens |-> Some(MaxTokens), totalTokens |-> None]

\* ------------------------------------------------------- the stuffing stage
Called == IsSome(stuffValues)
Values == Get(stuffValues)
InputPresent == Called /\ HasInputKey(stage, Values)
InputDocs == Values[stage.inputKey].docs

\* The documents' texts in list order, a two-newline separator between each
\* two neighbours.
ExpectedText ==
    [k \in 1..(IF InputDocs = <<>> THEN 0 ELSE 2 * Len(InputDocs) - 1) |->
        IF k % 2 = 1 THEN InputDocs[(k + 1) \div 2].pageContent ELSE "\n\n"]

\* C11: when the input key is present, _call invokes the inner pipeline
\* exactly once, with the input's keys except the input key plus the context
\* key bound to the documents' texts joined in list order by two newlines;
\* it returns the inner result unchanged and rethrows an inner failure.
StuffsOnceAndReturnsInnerResult ==
    InputPresent =>
        /\ Len(innerCalls) = 1
        /\ DOMAIN innerCalls[1].input =
              (DOMAIN Values \ {stage.inputKey}) \cup {stage.documentVariableName}
        /\ innerCalls[1].input[stage.documentVariableName] = TextValue(ExpectedText)
        /\ \A k \in DOMAIN innerCalls[1].input \ {stage.documentVariableName} :
              innerCalls[1].input[k] = Values[k]
        /\ innerCalls[1].status = "pending" <=> stuffPc = "inner"
        /\ innerCalls[1].status = "ok" <=> stuffPc = "returned"
        /\ innerCalls[1].status = "error" <=> stuffPc = "thrown"
        /\ stuffPc = "returned" =>
              /\ stuffResult = innerCalls[1].output
              /\ IsSome(stuffResult)
              /\ stuffError = None
        /\ stuffPc = "thrown" =>
              /\ stuffError = Some([error |-> "InnerFailure", message |-> <<"inner">>])
              /\ stuffResult = None

StuffsOnceAndReturnsInnerResultWitness ==
    /\ InputPresent
    /\ stuffPc = "returned"
    /\ Len(InputDocs) = MaxDocs
    /\ InputDocs[1].pageContent # InputDocs[2].pageContent
    /\ DOMAIN Values \ {stage.inputKey, stage.documentVariableName} # {}

\* C12: when the input key is absent, _call fails with a MissingInput error
\* that names the key, and the inner pipeline is not invoked.
MissingInputFailsBeforeInner ==
    (Called /\ ~HasInputKey(stage, Values)) =>
        /\ stuffPc = "thrown"
        /\ IsSome(stuffError)
        /\ Get(stuffError).error = "MissingInput"
        /\ \E k \in 1..Len(Get(stuffError).message) :
              Get(stuffError).message[k] = stage.inputKey
        /\ innerCalls = <<>>
        /\ stuffResult = None

MissingInputFailsBeforeInnerWitness ==
    /\ Called
    /\ ~HasInputKey(stage, Values)
    /\ DOMAIN Values # {}
    /\ stage.inputKey = "docs"
    /\ stuffPc = "thrown"

\* C13 as stated: every key of the input other than the input key reaches the
\* inner pipeline with the input's value, the context key's name included.
EveryOtherKeyPassesThrough ==
    InputPresent =>
        \A k \in DOMAIN Values \ {stage.inputKey} :
            /\ k \in DOMAIN innerCalls[1].input
            /\ innerCalls[1].input[k] = Values[k]

\* C13: every key of the input other than the input key and the context key
\* reaches the inner pipeline with the input's value; the context key holds
\* the joined text, whatever the input held under that name.
OtherKeysPassThroughExceptContext ==
    InputPresent =>
        /\ \A k \in DOMAIN Values \ {stage.inputKey, stage.documentVariableName} :
              /\ k \in DOMAIN innerCalls[1].input
              /\ innerCalls[1].input[k] = Values[k]
        /\ innerCalls[1].input[stage.documentVariableName] = TextValue(ExpectedText)

OtherKeysPassThroughExceptContextWitness ==
    /\ InputPresent
    /\ stage.documentVariableName \in DOMAIN Values \ {stage.inputKey}
    /\ Values[stage.documentVariableName] # TextValue(ExpectedText)
    /\ DOMAIN Values \ {stage.inputKey, stage.documentVariableName} # {}
    /\ Len(innerCalls) = 1

\* Two stages behave alike when _call requires the same key and hands the
\* same map to the inner pipeline on every input.
SameBehaviour(a, b) ==
    \A values \in InputMaps :
        /\ HasInputKey(a, values) <=> HasInputKey(b, values)
        /\ HasInputKey(a, values) /\ HasInputKey(b, values) =>
              InnerInput(a, values) = InnerInput(b, values)

\* C14: deserialize(stage.serialize()) is a stage with the same inner
\* pipeline configuration and the same behaviour of _call on every input,
\* whatever key names the stage was constructed with.
RoundTripIsEquivalent ==
    restored # None =>
        /\ Get(restored).llmChain = stage.llmChain
        /\ Get(restored).inputKey = stage.inputKey
        /\ Get(restored).documentVariableName = stage.documentVariableName
        /\ SameBehaviour(Get(restored), stage)

\* -------------------------------------------------- non-positive batch size
\* C15: on an engine whose batch size is zero or negative every generate call
\* fails with InvalidArgument at its entry: it invokes the transport never
\* and returns no result.
NonPositiveBatchSizeRejected ==
    engine.batchSize <= 0 =>
        /\ log = <<>>
        /\ \A c \in callers :
              pc[c] # "idle" =>
                  /\ Thrown(c, "InvalidArgument")
                  /\ result[c] = None

NonPositiveBatchSizeRejectedWitness ==
    /\ engine.batchSize = 0
    /\ engine.stop = None
    /\ \E c \in callers :
          /\ Thrown(c, "InvalidArgument")
          /\ Len(args[c].prompts) = MaxPrompts

\* ------------------------------------------------------------ request fields
\* The stop sequences a call is meant to send: its override when it passed
\* one, the engine's configured list otherwise.
EffectiveStop(c) == IF IsSome(args[c].stop) THEN args[c].stop ELSE engine.stop

\* C16: every request of a generate call carries the call's effective stop
\* sequences: the override when one is provided, the engine's configured
\* stop list otherwise.
RequestsCarryEffectiveStop ==
    \A c \in callers :
        \A k \in Entries(c) : log[k].request.stop = EffectiveStop(c)

\* What a call returns when it runs alone: the groups of the completions of
\* its own batches, the usage of the responses to its own requests.
AloneChoices(c) ==
    LET chunks == chunkArray(args[c].prompts, engine.batchSize)
    IN  Flatten([j \in 1..Len(chunks) |-> Completions(chunks[j], engine.n)])

IsolatedCalls ==
    \A c \in callers :
        /\ \A k \in Entries(c) :
              log[k].request =
                  BatchRequest(CallParams(engine, args[c].stop),
                               chunkArray(args[c].prompts, engine.batchSize),
                               log[k].batch)
        /\ Returned(c) =>
              result[c] = Some(LLMResult(engine, AloneChoices(c),
                                         SumUsage(OkUsages(c))))

\* C17: under every interleaving of two generate calls on one engine each
\* call sends the requests and returns the groups and the usage it does
\* alone, and no step changes the engine's configuration.
CallsAreIsolated == []IsolatedCalls /\ [][engine' = engine]_vars

CallsAreIsolatedWitness ==
    /\ Returned(1) /\ Returned(2)
    /\ Len(subPrompts[1]) = 2 /\ Len(subPrompts[2]) = 1
    /\ Len(args[1].prompts) # Len(args[2].prompts)
    /\ \E k1, k2, k3 \in 1..Len(log) :
          /\ k1 < k2 /\ k2 < k3
          /\ log[k1].call = 1 /\ log[k2].call = 2 /\ log[k3].call = 1
    /\ Get(result[1]).llmOutput # Get(result[2]).llmOutput

\* C18: every request carries the engine's configured model and replication
\* factor, the factor being the one the completions are regrouped by, and
\* the configured stop list when the call passes no override: modelKwargs
\* replaces none of them.
RequestsCarryConfiguredFields ==
    \A c \in callers :
        \A k \in Entries(c) :
            /\ log[k].request.model = engine.modelName
            /\ log[k].request.n = engine.n
            /\ log[k].request.n = GroupSize(engine)
            /\ args[c].stop = None => log[k].request.stop = engine.stop

\* ------------------------------------------------------------- termination
Done(c) == pc[c] \in {"returned", "thrown"}
Running(c) == pc[c] \in {"request", "await"}

\* ceil(p / b) * m for the call's p prompts.
InvocationBound(c) ==
    ((Len(args[c].prompts) + engine.batchSize - 1) \div engine.batchSize)
        * engine.maxRetries

AttemptsBounded ==
    \A c \in callers : Cardinality(Entries(c)) <= InvocationBound(c)

EmptyResult == [generations |-> <<>>, llmOutput |-> [tokenUsage |-> EmptyTokenUsage]]

\* C19 as stated, its safety part: at most ceil(p / b) * m invocations, and
\* a call with no prompt returns the empty result.
EmptyCallAlwaysReturnsEmpty ==
    /\ AttemptsBounded
    /\ \A c \in callers :
          (pc[c] # "idle" /\ args[c].prompts = <<>>) =>
              /\ Returned(c)
              /\ result[c] = Some(EmptyResult)
              /\ Entries(c) = {}

EmptyCallReturnsEmptyUnlessConflict ==
    \A c \in callers :
        (pc[c] # "idle" /\ args[c].prompts = <<>>) =>
            /\ Entries(c) = {}
            /\ \/ Returned(c) /\ result[c] = Some(EmptyResult)
               \/ Thrown(c, "ConfigConflict") /\ StopConflict(engine, args[c].stop)
            /\ ~StopConflict(engine, args[c].stop) => Returned(c)

\* C19: when every attempt returns or fails, a generate call completes, with
\* a result or an error, after at most ceil(p / b) * m invocations of the
\* transport; a call with no prompt invokes it never and returns the empty
\* result, unless it fails with ConfigConflict.
CompletesWithinBound ==
    /\ []AttemptsBounded
    /\ []EmptyCallReturnsEmptyUnlessConflict
    /\ (\E c \in CallIds : Running(c)) ~> (\A c \in callers : Done(c))

CompletesWithinBoundWitness ==
    /\ Done(1)
    /\ Len(args[1].prompts) = MaxPrompts
    /\ engine.batchSize = MaxBatchSize
    /\ engine.maxRetries = MaxRetriesBound
    /\ Cardinality(Entries(1)) = InvocationBound(1)

\* C20 as stated: a generate call fails with ConfigConflict only when the
\* configured stop list and the stop override are both non-empty.
ConflictOnlyWhenBothNonEmpty ==
    \A c \in callers :
        Thrown(c, "ConfigConflict") =>
            /\ IsSome(engine.stop) /\ Get(engine.stop) # <<>>
            /\ IsSome(args[c].stop) /\ Get(args[c].stop) # <<>>

BothStopsSupplied(c) == IsSome(engine.stop) /\ IsSome(args[c].stop)

\* C20: a generate call fails with ConfigConflict only when the configured
\* stop list and the stop override are both supplied, an empty list being a
\* supplied one; when either is absent the call does not raise
\* ConfigConflict and goes on to submit its batches.
ConflictOnlyWhenBothSupplied ==
    \A c \in callers :
        pc[c] # "idle" =>
            /\ Thrown(c, "ConfigConflict") <=> BothStopsSupplied(c)
            /\ ~BothStopsSupplied(c) =>
                  /\ error[c] # "ConfigConflict"
                  /\ subPrompts[c] = chunkArray(args[c].prompts, engine.batchSize)
                  /\ args[c].prompts # <<>> =>
                        \/ pc[c] = "request" /\ i[c] = 1
                        \/ Entries(c) # {}

ConflictOnlyWhenBothSuppliedWitness ==
    /\ engine.stop = Some(<<"\n">>)
    /\ args[1].stop = None
    /\ Len(args[1].prompts) = MaxPrompts
    /\ Returned(1)
    /\ Cardinality(Entries(1)) = Len(subPrompts[1])

====
